---- MODULE Spec2Model ----
(***************************************************************************)
(* Model of the logging package of go-api (package logging): the           *)
(* process-wide ELKLogger singleton, InitLogger/GetLogger, Log with its    *)
(* shipping goroutine (sendLogAsync, createLogEntry) and console mirror    *)
(* (logToConsole), and the level wrappers.                                 *)
(*                                                                         *)
(* Pointers are natural numbers and 0 is nil.  A *ELKLogger n > 0 is the    *)
(* n-th object allocated (heap).  A field map is named after the Log call  *)
(* it was allocated for: maps[n] holds no map, or the one map of call n    *)
(* (the literal of the call site, or the map createLogEntry makes).        *)
(* Goroutines interleave at the granularity of the statements that touch   *)
(* shared state.                                                           *)
(***************************************************************************)
EXTENDS Integers, Sequences, FiniteSets, TLC

\* Bound on the number of Log invocations (shipping units) of one run.
MaxCalls == 2

\* The request-handling goroutines that call into the package.
Procs == {"p1", "p2"}

\* Values the process environment can hold for ENVIRONMENT and SERVER_IP
\* ("" is unset: os.Getenv returns the empty string).
EnvironmentValues == {"", "development"}
ServerIPValues == {""}

\* What os.Hostname() returns on the machine.
Hostname == "api-1"

VARIABLES
    envENVIRONMENT,  \* os.Getenv("ENVIRONMENT")
    envSERVER_IP,    \* os.Getenv("SERVER_IP")
    goWrap,          \* runtime.Caller sees a wrapper frame under sendLogAsync
    once,            \* sync.Once: "fresh", "running", "done"
    loggerInstance,  \* package variable: pointer into heap, 0 = nil
    heap,            \* the ELKLogger objects allocated so far
    maps,            \* per Log call: <<>> or <<m>>, the field map of the call
    pc,              \* position of each calling goroutine
    cur,             \* the call each calling goroutine is executing
    units,           \* the shipping goroutines started by Log, in start order
    console,         \* lines on standard output, in write order
    stderr,          \* number of lines on standard error
    sink,            \* the remote sink: 0 = unreachable, or the status it answers
    remote,          \* the calls whose documents have reached the sink
    exited           \* the process has exited: main has returned

vars == <<envENVIRONMENT, envSERVER_IP, goWrap, once, loggerInstance, heap,
          maps, pc, cur, units, console, stderr, sink, remote, exited>>

----------------------------------------------------------------------------
(* Pure helpers *)

IsNil(ptr) == ptr = 0

EmptyMap == [k \in {} |-> ""]

\* m with m[key] = value (Go: m[key] = value)
MapSet(m, key, value) ==
    [k \in DOMAIN m \cup {key} |-> IF k = key THEN value ELSE m[k]]

\* A value encoding/json cannot encode (a channel, a func).
UnsupportedValue == "chan"

\* The field maps the callers pass: absent ("nil"), an encodable one, one
\* that json.Marshal rejects.
FieldLiteral(choice) ==
    IF choice = "good" THEN [order_id |-> "42"] ELSE [conn |-> UnsupportedValue]

\* The calls each goroutine's code makes: wrapper and field map.
UserCalls(p) ==
    IF p = "p1" THEN {<<"Info", "good">>, <<"Warn", "nil">>}
                ELSE {<<"Error", "bad">>, <<"Debug", "good">>}

\* A wrapper that passed the wrong tag would log every call as INFO.
LevelAlwaysInfo(op) == "INFO"

\* Wrappers' fixed level tags.
LevelOf(op) ==
    CASE op = "Info" -> "INFO"
      [] op = "Warn" -> "WARN"
      [] op = "Error" -> "ERROR"
      [] op = "Debug" -> "DEBUG"

SelfTestMessage == "Logger initialized on production server"
UserMessage == "order placed"

\* file:line of the statement that calls the public logging function.
CallSite(op) ==
    CASE op = "Info" -> "hadnlers/api.go:31"
      [] op = "Warn" -> "hadnlers/api.go:117"
      [] op = "Error" -> "hadnlers/api.go:60"
      [] op = "Debug" -> "hadnlers/api.go:217"

SelfTestSite == "logging.go:76"

NoCall == [op |-> "none", level |-> "", message |-> "", fields |-> 0, l |-> 0,
           site |-> "", unit |-> 0]

\* resp.StatusCode >= 400 is a delivery error.
ErrorStatusFloor == 400

\* The remote sink is unreachable (0: httpClient.Do fails, the 5 s timeout
\* included) or answers every request with one status.
SinkStates == {0, 200, 400}

\* Number of frames runtime.Caller skips in createLogEntry.
CallerSkip == 3

ANSIColor(level) ==
    CASE level = "ERROR" -> "red"
      [] level = "WARN" -> "yellow"
      [] level = "INFO" -> "green"
      [] level = "DEBUG" -> "cyan"
      [] OTHER -> "reset"

\* Log invocations already started plus the self-test a caller is committed to.
Committed ==
    Len(units) + Cardinality({p \in Procs : pc[p] = "init_env"})

Init ==
    /\ envENVIRONMENT \in EnvironmentValues
    /\ envSERVER_IP \in ServerIPValues
    /\ goWrap \in BOOLEAN
    /\ once = "fresh"
    /\ loggerInstance = 0
    /\ heap = <<>>
    /\ maps = <<>>
    /\ pc = [p \in Procs |-> "idle"]
    /\ cur = [p \in Procs |-> NoCall]
    /\ units = <<>>
    /\ console = <<>>
    /\ stderr = 0
    /\ sink \in SinkStates
    /\ remote = {}
    /\ exited = FALSE

----------------------------------------------------------------------------
(* Log's go statement *)

\* The frame of a shipping goroutine: sendLogAsync's arguments and locals.
NewUnit(call) ==
    [level |-> call.level, message |-> call.message, fields |-> call.fields,
     l |-> call.l, site |-> call.site, pc |-> "start", entry |-> <<>>,
     shipped |-> <<>>, posts |-> 0]

\* A shipping goroutine that has returned; its frame stays on record.
Exited(u) == [u EXCEPT !.pc = "done"]

\* Line 96: go l.sendLogAsync(level, message, fields) starts the shipping
\* goroutine of this call.
GoSendLogAsync(call) == Append(units, NewUnit(call))

\* `go f(...)` hands f to a new goroutine; the statement after it runs
\* whatever that goroutine does.  A plain call would wait for f to return.
PlainCallReturns(unit) == unit.pc = "done"

GoStatementReturns(unit) == TRUE

----------------------------------------------------------------------------
(* InitLogger and GetLogger *)

\* once.Do(f): what a caller does for the state it finds the Once in.
\* An unlocked test of the done flag would let every caller that arrives
\* before f has completed run f itself.
OnceDoUnlocked(state) ==
    IF state = "done" THEN "skip" ELSE "run"

\* Without the Once every call of InitLogger would run f.
OnceDoEveryTime(state) == "run"

OnceDo(state) ==
    CASE state = "fresh" -> "run"
      [] state = "running" -> "wait"
      [] state = "done" -> "skip"

\* The object of lines 55-69; environment is still what os.Getenv returned.
NewELKLogger ==
    [logstashURL |-> "http://logstash:5000",
     httpClient  |-> "pooled-client",
     serviceName |-> "go-api",
     environment |-> envENVIRONMENT,
     hostname    |-> Hostname,
     serverIP    |-> IF envSERVER_IP = "" THEN "147.45.183.143" ELSE envSERVER_IP]

\* InitLogger is entered: once.Do either runs f up to the assignment of
\* loggerInstance (lines 43-69), or blocks behind the running f, or returns
\* at once.
InitLoggerCall(p) ==
    /\ pc[p] = "idle"
    /\ LET todo == OnceDo(once) IN
         CASE todo = "run" ->
                /\ Committed < MaxCalls
                /\ once' = "running"
                /\ heap' = Append(heap, NewELKLogger)
                /\ loggerInstance' = Len(heap) + 1
                /\ pc' = [pc EXCEPT ![p] = "init_env"]
                /\ cur' = [cur EXCEPT ![p] = [NoCall EXCEPT !.op = "InitLogger"]]
           [] todo = "wait" ->
                /\ pc' = [pc EXCEPT ![p] = "once_wait"]
                /\ cur' = [cur EXCEPT ![p] = [NoCall EXCEPT !.op = "InitLogger"]]
                /\ UNCHANGED <<once, heap, loggerInstance>>
           [] todo = "skip" ->
                \* f is not run; line 84 returns loggerInstance at once
                UNCHANGED <<once, heap, loggerInstance, pc, cur>>
    /\ UNCHANGED <<envENVIRONMENT, envSERVER_IP, goWrap, maps, units, console,
                   stderr, sink, remote, exited>>

\* Lines 71-81 and 96: default the environment, build the self-test map,
\* call Log, which starts the shipping goroutine.
InitSelfTest(p) ==
    /\ pc[p] = "init_env"
    /\ LET l == loggerInstance
           env == IF heap[l].environment = "" THEN "production"
                  ELSE heap[l].environment
           m == [server_ip |-> heap[l].serverIP,
                 logstash_url |-> heap[l].logstashURL,
                 environment |-> env,
                 hostname |-> heap[l].hostname]
           call == [op |-> "InitLogger", level |-> "INFO",
                    message |-> SelfTestMessage, fields |-> Len(units) + 1,
                    l |-> l, site |-> SelfTestSite, unit |-> Len(units) + 1]
       IN /\ heap' = [heap EXCEPT ![l].environment = env]
          /\ maps' = Append(maps, <<m>>)
          /\ cur' = [cur EXCEPT ![p] = call]
          /\ units' = GoSendLogAsync(call)
    /\ pc' = [pc EXCEPT ![p] = "log_console"]
    /\ UNCHANGED <<envENVIRONMENT, envSERVER_IP, goWrap, once, loggerInstance,
                   console, stderr, sink, remote, exited>>

\* A caller blocked in once.Do resumes once f has completed, and line 84
\* returns loggerInstance.
InitOnceWake(p) ==
    /\ pc[p] = "once_wait"
    /\ once = "done"
    /\ pc' = [pc EXCEPT ![p] = "idle"]
    /\ cur' = [cur EXCEPT ![p] = NoCall]
    /\ UNCHANGED <<envENVIRONMENT, envSERVER_IP, goWrap, once, loggerInstance,
                   heap, maps, units, console, stderr, sink, remote, exited>>

\* GetLogger aborts the caller when the package variable is nil.
GetLoggerNoCheck(inst) == FALSE

GetLoggerPanics(inst) == IsNil(inst)

\* Debug dispatches only in the development environment.
DebugUnlessProduction(environment) == environment # "production"

DebugEnabled(environment) == environment = "development"

\* A package-level function is entered: GetLogger().Op(message, fields).
\* GetLogger, the wrapper and Debug's test of the environment read shared
\* state once each and run up to Log's go statement.  A method called on the
\* logger InitLogger returned behaves like the call made after InitLogger.
\* The map literal of the call site is allocated when the call reaches Log.
PublicCall(p, op, choice) ==
    /\ pc[p] = "idle"
    /\ LET l == loggerInstance
           call == [op |-> op, level |-> LevelOf(op),
                    message |-> UserMessage,
                    fields |-> IF choice = "nil" THEN 0 ELSE Len(units) + 1,
                    l |-> l, site |-> CallSite(op), unit |-> Len(units) + 1]
       IN IF GetLoggerPanics(l) \/ (op = "Debug" /\ IsNil(l))
          THEN \* panic in GetLogger, or l.environment on a nil receiver
               /\ pc' = [pc EXCEPT ![p] = "panicked"]
               /\ cur' = [cur EXCEPT ![p] = NoCall]
               /\ UNCHANGED <<maps, units>>
          ELSE IF op = "Debug" /\ ~DebugEnabled(heap[l].environment)
          THEN \* Debug returns without calling Log
               UNCHANGED <<pc, cur, maps, units>>
          ELSE /\ Committed < MaxCalls
               /\ pc' = [pc EXCEPT ![p] = "log_console"]
               /\ maps' = Append(maps, IF choice = "nil" THEN <<>>
                                        ELSE <<FieldLiteral(choice)>>)
               /\ cur' = [cur EXCEPT ![p] = call]
               /\ units' = GoSendLogAsync(call)
    /\ UNCHANGED <<envENVIRONMENT, envSERVER_IP, goWrap, once, loggerInstance,
                   heap, console, stderr, sink, remote, exited>>

----------------------------------------------------------------------------
(* The console mirror and the return of Log *)

ConsolePrepend(out, line) == <<line>> \o out

ConsoleWrite(out, line) == Append(out, line)

\* The keys logToConsole prints: none when len(fields) = 0 (a nil map too).
ConsoleKeys(fields) == IF IsNil(fields) THEN {} ELSE DOMAIN maps[fields][1]

\* Lines 99-100: l.logToConsole(level, message, fields) on the caller's
\* goroutine, then Log returns to the wrapper and that to its caller.  The
\* self-test's Log returns into the function once.Do is running, which
\* returns; once.Do marks the Once done and InitLogger returns
\* loggerInstance.
LogConsole(p) ==
    /\ pc[p] = "log_console"
    /\ GoStatementReturns(units[cur[p].unit])
    /\ console' = ConsoleWrite(console,
                     [call |-> cur[p].unit, proc |-> p,
                      color |-> ANSIColor(cur[p].level),
                      level |-> cur[p].level, message |-> cur[p].message,
                      keys |-> ConsoleKeys(cur[p].fields)])
    /\ once' = IF cur[p].op = "InitLogger" THEN "done" ELSE once
    /\ cur' = [cur EXCEPT ![p] = NoCall]
    /\ pc' = [pc EXCEPT ![p] = "idle"]
    /\ UNCHANGED <<envENVIRONMENT, envSERVER_IP, goWrap, loggerInstance, heap,
                   maps, units, stderr, sink, remote, exited>>

----------------------------------------------------------------------------
(* The shipping goroutine: sendLogAsync and createLogEntry *)

GoVersion == "go1.x"

\* The frames of the shipping goroutine while createLogEntry calls
\* runtime.Caller, innermost first, each with the file:line it is executing:
\* createLogEntry, sendLogAsync, the wrapper the toolchain may start the
\* goroutine through (whether there is one, and whether runtime.Caller
\* counts it, depends on the toolchain), and the runtime's goroutine entry.
GoroutineStack(wrap) ==
    <<"logging.go:138", "logging.go:103">>
      \o (IF wrap THEN <<"logging.go:96">> ELSE <<>>)
      \o <<"runtime/asm.s:goexit">>

\* runtime.Caller(skip): frame 0 is the function that calls it.
RuntimeCaller(stack, skip) ==
    IF skip < Len(stack) THEN [ok |-> TRUE, loc |-> stack[skip + 1]]
    ELSE [ok |-> FALSE, loc |-> ""]

\* createLogEntry: the entry it returns and the field maps after it ran.
\* ServerIP is not assigned by the literal, so it keeps its zero value.
\* `fresh` is the name the map of line 134 gets if it is made.
CreateLogEntry(l, level, message, fields, stack, fresh) ==
    LET m == IF IsNil(fields) THEN fresh ELSE fields
        made == IF IsNil(fields) THEN [maps EXCEPT ![m] = <<EmptyMap>>]
                ELSE maps
        c == RuntimeCaller(stack, CallerSkip)
    IN [maps |-> IF c.ok
                 THEN [made EXCEPT ![m] = <<MapSet(made[m][1], "caller", c.loc)>>]
                 ELSE made,
        entry |-> [level |-> level,
                   service |-> heap[l].serviceName,
                   message |-> message,
                   fields |-> m,
                   environment |-> heap[l].environment,
                   host |-> heap[l].hostname,
                   server_ip |-> "",
                   go_version |-> GoVersion]]

\* json.Marshal fails on a value it cannot encode.
Marshalable(m) == \A k \in DOMAIN m : m[k] # UnsupportedValue

\* The JSON document: `fields` is omitempty, so an empty map is left out.
Document(entry, m) ==
    [level |-> entry.level, service |-> entry.service,
     message |-> entry.message, hasFields |-> DOMAIN m # {}, fields |-> m,
     environment |-> entry.environment, host |-> entry.host,
     server_ip |-> entry.server_ip, go_version |-> entry.go_version]

\* http.NewRequest fails when the URL does not parse.
ValidURL(url) == url # ""

ErrorStatusAbove(status) == status > ErrorStatusFloor

ErrorStatus(status) == status >= ErrorStatusFloor

\* After it reported a failure the dispatch returns.
OnFailureRetry(u) == [u EXCEPT !.pc = "start"]

OnFailure(u) == Exited(u)

\* Lines 103-119: the goroutine runs createLogEntry, json.Marshal,
\* http.NewRequest and the header, and httpClient.Do issues the POST.  After
\* createLogEntry it touches only what it owns, so it is one step up to
\* the first failure or to the request being on the wire.
UnitRun(i) ==
    /\ units[i].pc = "start"
    /\ IF IsNil(units[i].l)
       THEN \* nil receiver dereferenced: the goroutine panics
            /\ units' = [units EXCEPT ![i].pc = "crashed"]
            /\ UNCHANGED <<maps, stderr>>
       ELSE LET r == CreateLogEntry(units[i].l, units[i].level,
                                    units[i].message, units[i].fields,
                                    GoroutineStack(goWrap), i)
                e == r.entry
                m == r.maps[e.fields][1]
                u == [units[i] EXCEPT !.entry = <<e>>]
            IN IF Marshalable(m) /\ ValidURL(heap[u.l].logstashURL)
               THEN /\ units' = [units EXCEPT ![i] =
                                   [u EXCEPT !.pc = "inflight",
                                             !.posts = @ + 1,
                                             !.shipped = <<Document(e, m)>>]]
                    /\ maps' = r.maps
                    /\ stderr' = stderr
               ELSE \* "Failed to marshal log" / "Failed to create log request"
                    /\ units' = [units EXCEPT ![i] = OnFailure(u)]
                    /\ maps' = r.maps
                    /\ stderr' = stderr + 1
    /\ UNCHANGED <<envENVIRONMENT, envSERVER_IP, goWrap, once, loggerInstance,
                   heap, pc, cur, console, sink, remote, exited>>

\* A POST the sink answers has reached it, whatever the status; a dispatch
\* that answers nothing has delivered nothing.
ArriveNever(arrived, i) == arrived

\* The sink has received the document of call i.
Arrive(arrived, i) == arrived \cup {i}

\* Without the client's Timeout a POST to a sink that does not answer would
\* never return.
DoReturnsIfAnswered(s) == s # 0

\* Line 58: the client's Timeout of 5 s makes httpClient.Do return whatever
\* the sink does, with an error if it has not answered.
DoReturns(s) == TRUE

\* Lines 119-130: httpClient.Do returns, with a transport error when the sink
\* is unreachable and with its response otherwise; a transport error or a
\* status >= 400 is reported, and the goroutine returns.
UnitResolve(i) ==
    /\ units[i].pc = "inflight"
    /\ DoReturns(sink)
    /\ IF sink = 0
       THEN \* "Failed to send log to ELK"
            /\ units' = [units EXCEPT ![i] = OnFailure(@)]
            /\ stderr' = stderr + 1
            /\ remote' = remote
       ELSE \* "Logstash returned error" when the status is >= 400
            /\ units' = [units EXCEPT ![i] = Exited(@)]
            /\ stderr' = IF ErrorStatus(sink) THEN stderr + 1 ELSE stderr
            /\ remote' = Arrive(remote, i)
    /\ UNCHANGED <<envENVIRONMENT, envSERVER_IP, goWrap, once, loggerInstance,
                   heap, maps, pc, cur, console, sink, exited>>

\* The remote sink goes down, comes back, or changes what it answers.
SinkChange(s) ==
    /\ s # sink
    /\ sink' = s
    /\ UNCHANGED <<envENVIRONMENT, envSERVER_IP, goWrap, once, loggerInstance,
                   heap, maps, pc, cur, units, console, stderr, remote, exited>>

----------------------------------------------------------------------------

Next ==
    \/ \E p \in Procs : InitLoggerCall(p)
    \/ \E p \in Procs : InitSelfTest(p)
    \/ \E p \in Procs : InitOnceWake(p)
    \/ \E p \in Procs : \E c \in UserCalls(p) : PublicCall(p, c[1], c[2])
    \/ \E p \in Procs : LogConsole(p)
    \/ \E i \in DOMAIN units : UnitRun(i)
    \/ \E i \in DOMAIN units : UnitResolve(i)
    \/ \E s \in SinkStates : SinkChange(s)

Spec == Init /\ [][Next]_vars

\* The Go scheduler runs every runnable goroutine: a caller inside Log gets
\* to its next statement and a shipping goroutine to its next step, and
\* httpClient.Do returns within its Timeout.  Nothing obliges the handlers
\* to make calls or the sink to change.
Fairness ==
    /\ \A p \in Procs : WF_vars(LogConsole(p))
    /\ \A p \in Procs : WF_vars(InitSelfTest(p))
    /\ \A p \in Procs : WF_vars(InitOnceWake(p))
    /\ \A i \in 1..MaxCalls : WF_vars(i \in DOMAIN units /\ UnitRun(i))
    /\ \A i \in 1..MaxCalls : WF_vars(i \in DOMAIN units /\ UnitResolve(i))

FairSpec == Spec /\ Fairness

----------------------------------------------------------------------------
(* Shutdown: main returns and the process exits *)

\* The goroutine that ran InitLogger's function: main (main.go:20).
IsMain(p) ==
    \E k \in DOMAIN console :
        console[k].message = SelfTestMessage /\ console[k].proc = p

\* A main that drained the pipeline would wait for every shipping goroutine.
AllUnitsReturned(us) == \A i \in DOMAIN us : us[i].pc = "done"

\* main.go:90-91: main returns right after its last log call; it waits for
\* no shipping goroutine.
ReadyToExit(us) == TRUE

\* main returns: the process exits, and every goroutine ends where it is.
MainReturns(p) ==
    /\ ~exited
    /\ IsMain(p)
    /\ pc[p] = "idle"
    /\ ReadyToExit(units)
    /\ exited' = TRUE
    /\ UNCHANGED <<envENVIRONMENT, envSERVER_IP, goWrap, once, loggerInstance,
                   heap, maps, pc, cur, units, console, stderr, sink, remote>>

\* The steps of the process up to its exit; after it no goroutine runs.
ShutdownNext ==
    \/ \E p \in Procs : ~exited /\ InitLoggerCall(p)
    \/ \E p \in Procs : ~exited /\ InitSelfTest(p)
    \/ \E p \in Procs : ~exited /\ InitOnceWake(p)
    \/ \E p \in Procs : \E c \in UserCalls(p) :
          ~exited /\ PublicCall(p, c[1], c[2])
    \/ \E p \in Procs : ~exited /\ LogConsole(p)
    \/ \E i \in DOMAIN units : ~exited /\ UnitRun(i)
    \/ \E i \in DOMAIN units : ~exited /\ UnitResolve(i)
    \/ \E s \in SinkStates : ~exited /\ SinkChange(s)
    \/ \E p \in Procs : MainReturns(p)

ShutdownSpec == Init /\ [][ShutdownNext]_vars

----------------------------------------------------------------------------
(* Properties *)

\* The lines of the console written for the calls of goroutine p.
LinesOf(p) == {k \in DOMAIN console : console[k].proc = p}

\* The shipping units started for the self-test of InitLogger.
SelfTestUnits == {i \in DOMAIN units : units[i].message = SelfTestMessage}

SelfTestLines == {k \in DOMAIN console : console[k].message = SelfTestMessage}

\* C1: Log returns without waiting for its shipping goroutine: whenever a
\* caller is inside Log after the go statement, writing the console line and
\* returning is possible, whatever state the unit of this call and the units
\* of earlier calls are in (not started, POST unresolved, returned).
C1_LogReturnsWithoutWaiting ==
    \A p \in Procs : pc[p] = "log_console" => ENABLED LogConsole(p)

\* Two calls have returned to their callers while the POSTs of both are
\* still unresolved.
C1_Witness ==
    /\ Len(units) = 2
    /\ \A i \in DOMAIN units : units[i].pc = "inflight"
    /\ \A p \in Procs : pc[p] = "idle"
    /\ Len(console) = 2

\* C2: however the callers of InitLogger interleave, at most one ELKLogger is
\* ever constructed and loggerInstance points to it, at most one self-test
\* entry is emitted, and whenever InitLogger can return (once.Do lets a
\* caller through without running f, or the Once is done) there is exactly
\* one self-test console line and one self-test shipping unit, and the
\* instance is non-nil with its environment resolved.
C2_SingleInitialization ==
    /\ Len(heap) <= 1
    /\ loggerInstance = Len(heap)
    /\ Cardinality(SelfTestUnits) <= 1
    /\ Cardinality(SelfTestLines) <= 1
    /\ \A p \in Procs : pc[p] = "once_wait" => once # "fresh"
    /\ (OnceDo(once) = "skip" \/ once = "done") =>
         /\ ~IsNil(loggerInstance)
         /\ heap[loggerInstance].environment # ""
         /\ Cardinality(SelfTestUnits) = 1
         /\ Cardinality(SelfTestLines) = 1

\* A second caller entered InitLogger while the first was running it, and
\* the first has completed: the second is about to return.
C2_Witness ==
    /\ once = "done"
    /\ \E p \in Procs : pc[p] = "once_wait"

\* C3: a package-level function called while loggerInstance is nil aborts
\* its caller: the step leaves the caller panicked, writes no console line
\* and starts no shipping unit; a panicked caller never resumes, and while
\* the singleton is nil no unit and no console line exists.
C3_UninitializedAccessPanics ==
    [][/\ \A p \in Procs : \A c \in UserCalls(p) :
            (IsNil(loggerInstance) /\ PublicCall(p, c[1], c[2]))
               => /\ pc'[p] = "panicked"
                  /\ UNCHANGED <<console, units, maps, loggerInstance>>
       /\ \A p \in Procs : pc[p] = "panicked" => pc'[p] = "panicked"
       /\ IsNil(loggerInstance') => units' = <<>> /\ console' = <<>>]_vars

\* A caller has panicked on the uninitialized singleton.
C3_Witness ==
    /\ IsNil(loggerInstance)
    /\ \E p \in Procs : pc[p] = "panicked"
    /\ units = <<>> /\ console = <<>>

\* The environment tag InitLogger resolves to.
ResolvedEnvironment ==
    IF envENVIRONMENT = "" THEN "production" ELSE envENVIRONMENT

\* C4: when the resolved environment tag is not "development" no console
\* line and no shipping unit with level DEBUG ever exists, and a Debug call
\* changes nothing; when it is "development" a Debug call on the initialized
\* logger starts exactly one shipping unit with level DEBUG and goes on to
\* write its console line like every other level.
C4_DebugOnlyInDevelopment ==
    /\ [](ResolvedEnvironment # "development" =>
            /\ \A i \in DOMAIN units : units[i].level # "DEBUG"
            /\ \A k \in DOMAIN console : console[k].level # "DEBUG")
    /\ [][\A p \in Procs : \A c \in UserCalls(p) :
            (c[1] = "Debug" /\ ~IsNil(loggerInstance)
               /\ PublicCall(p, c[1], c[2]))
               => IF ResolvedEnvironment = "development"
                  THEN /\ Len(units') = Len(units) + 1
                       /\ units'[Len(units')].level = "DEBUG"
                       /\ units'[Len(units')].pc = "start"
                       /\ pc'[p] = "log_console"
                       /\ cur'[p].level = "DEBUG"
                       /\ cur'[p].unit = Len(units')
                  ELSE UNCHANGED <<units, console, pc, cur>>]_vars

\* In development a Debug call has written its console line and its POST
\* is on the wire.
C4_Witness ==
    /\ ResolvedEnvironment = "development"
    /\ \E k \in DOMAIN console :
         /\ console[k].level = "DEBUG"
         /\ units[console[k].call].level = "DEBUG"
         /\ units[console[k].call].pc = "inflight"

\* Shipping unit i takes a step.
UnitSteps(i) == units'[i] # units[i]

\* C5: a dispatch issues at most one POST; a unit that has returned never
\* runs again; a step in which a unit reports a failure is the step in which
\* it returns, and the unit never goes back to an earlier stage; and a unit's
\* step changes nothing of any caller (position, call in progress, console)
\* nor of any other unit.
C5_AtMostOnceNoRetry ==
    [][\A i \in DOMAIN units :
          /\ units'[i].posts <= 1
          /\ units[i].pc = "done" => ~UnitSteps(i)
          /\ UnitSteps(i) =>
               /\ units'[i].pc \in {"inflight", "done"}
               /\ units[i].pc = "inflight" => units'[i].pc = "done"
               /\ stderr' # stderr => units'[i].pc = "done"
               /\ UNCHANGED <<pc, cur, console, loggerInstance, heap>>
               /\ \A j \in DOMAIN units' : j # i => units'[j] = units[j]]_vars

\* Two dispatches have failed, one of them after its POST was issued; both
\* have returned, and so have the calls that started them.
C5_Witness ==
    /\ Len(units) = 2
    /\ \A i \in DOMAIN units : units[i].pc = "done"
    /\ \E i \in DOMAIN units : units[i].posts = 1
    /\ stderr = 2
    /\ Len(console) = 2

\* Unit i returns in this step having failed: before its POST (serialization
\* or request construction), or on a transport error, or on a status >= 400.
FailedExit(i) ==
    /\ units[i].pc # "done"
    /\ units'[i].pc = "done"
    /\ \/ units[i].pc = "start"
       \/ sink = 0
       \/ sink >= 400

\* C6: every step adds to the error stream exactly one line for each
\* dispatch that ends in failure in that step, and nothing else: a dispatch
\* the sink answers with a status below 400 writes no line, and no dispatch
\* writes a line at any other moment.
C6_OneErrorLinePerFailure ==
    [][stderr' = stderr + Cardinality({i \in DOMAIN units : FailedExit(i)})]_vars

\* Two dispatches whose POSTs were issued have returned, and exactly one of
\* them left a line on the error stream.
C6_Witness ==
    /\ Len(units) = 2
    /\ \A i \in DOMAIN units : units[i].pc = "done" /\ units[i].posts = 1
    /\ stderr = 1

\* The field map entry e refers to, as it is now.
FieldsOf(e) == maps[e.fields][1]

\* C7: every entry createLogEntry has built carries the static fields of the
\* singleton it was built from: service, environment, host and server_ip
\* equal serviceName, environment, hostname and serverIP.
C7_EntryCarriesStaticFields ==
    \A i \in DOMAIN units :
        units[i].entry # <<>> =>
            LET e == units[i].entry[1]
                l == heap[units[i].l]
            IN /\ e.service = l.serviceName
               /\ e.environment = l.environment
               /\ e.host = l.hostname
               /\ e.server_ip = l.serverIP

\* C8: the `caller` field of every entry is the file:line of the statement
\* that invoked the public logging call.
C8_CallerIsCallSite ==
    \A i \in DOMAIN units :
        units[i].entry # <<>> =>
            /\ "caller" \in DOMAIN FieldsOf(units[i].entry[1])
            /\ FieldsOf(units[i].entry[1])["caller"] = units[i].site

\* C9: the document shipped for a call made with nil fields has a field map,
\* and that map holds the key `caller` and no other.
C9_NilFieldsOnlyCaller ==
    \A i \in DOMAIN units :
        (IsNil(units[i].fields) /\ units[i].shipped # <<>>) =>
            /\ units[i].shipped[1].hasFields
            /\ DOMAIN units[i].shipped[1].fields = {"caller"}

\* C10: the console line of a call is there from the moment Log has returned
\* to its caller, once and only once, and the lines of the calls one
\* goroutine makes one after the other stand in the order of the calls,
\* whatever the shipping units have or have not done.
C10_ConsoleInCallOrder ==
    /\ \A a, b \in DOMAIN console :
         (a < b /\ console[a].proc = console[b].proc)
            => console[a].call < console[b].call
    /\ \A i \in DOMAIN units :
         LET lines == {k \in DOMAIN console : console[k].call = i}
             inLog == {p \in Procs : pc[p] = "log_console" /\ cur[p].unit = i}
         IN /\ Cardinality(lines) + Cardinality(inLog) = 1
            /\ \A k \in lines : /\ console[k].level = units[i].level
                                /\ console[k].message = units[i].message

\* One goroutine has made two calls one after the other and both lines are
\* on the console, while neither shipping unit has run yet.
C10_Witness ==
    /\ \E p \in Procs : Cardinality(LinesOf(p)) = 2
    /\ Len(units) = 2
    /\ \A i \in DOMAIN units : units[i].pc = "start"

C12_EntriesCarryResolvedEnvironment ==
    /\ once = "done" =>
         heap[loggerInstance].environment = ResolvedEnvironment
    /\ \A i \in DOMAIN units :
         units[i].shipped # <<>> =>
            units[i].shipped[1].environment = ResolvedEnvironment

\* C13: once InitLogger has returned (the Once is done) no step changes the
\* singleton: loggerInstance keeps pointing to the same object and the
\* object keeps its logstashURL, httpClient, serviceName, environment,
\* hostname and serverIP, whichever of Log, the wrappers, the shipping
\* goroutines, the console mirror, GetLogger or a repeated InitLogger runs;
\* nothing is written that a lock would have to protect.
C13_SingletonReadOnlyAfterInit ==
    [][once = "done" =>
          /\ heap' = heap
          /\ loggerInstance' = loggerInstance
          /\ once' = "done"]_vars

\* After InitLogger has returned a handler's call has been logged and its
\* dispatch has finished.
C13_Witness ==
    /\ once = "done"
    /\ \E i \in DOMAIN units :
         /\ units[i].message = UserMessage
         /\ units[i].pc = "done"
         /\ \E k \in DOMAIN console : console[k].call = i

\* The level tag each wrapper is to pass to Log.
FixedLevelTag(op) ==
    CASE op = "Info" -> "INFO"
      [] op = "Warn" -> "WARN"
      [] op = "Error" -> "ERROR"
      [] op = "Debug" -> "DEBUG"

\* C14: a call of Info, Warn, Error or Debug that reaches Log starts exactly
\* one shipping unit, with the wrapper's fixed level tag and the caller's
\* message, and writes no console line before the one Log writes; every
\* unit has exactly one console line once its call has returned, with that
\* level and message; and the entry the unit builds and the document it
\* ships carry the level and message unchanged.
C14_OneLineOneUnitFixedLevel ==
    /\ [](\A i \in DOMAIN units :
            /\ Cardinality({k \in DOMAIN console : console[k].call = i})
                 + Cardinality({p \in Procs : pc[p] = "log_console"
                                                 /\ cur[p].unit = i}) = 1
            /\ \A k \in DOMAIN console :
                 console[k].call = i =>
                    /\ console[k].level = units[i].level
                    /\ console[k].message = units[i].message
            /\ units[i].entry # <<>> =>
                 /\ units[i].entry[1].level = units[i].level
                 /\ units[i].entry[1].message = units[i].message
            /\ units[i].shipped # <<>> =>
                 /\ units[i].shipped[1].level = units[i].level
                 /\ units[i].shipped[1].message = units[i].message)
    /\ [][\A p \in Procs : \A c \in UserCalls(p) :
            (PublicCall(p, c[1], c[2]) /\ pc'[p] = "log_console")
               => /\ Len(units') = Len(units) + 1
                  /\ units'[Len(units')].level = FixedLevelTag(c[1])
                  /\ units'[Len(units')].message = UserMessage
                  /\ cur'[p].level = FixedLevelTag(c[1])
                  /\ cur'[p].message = UserMessage
                  /\ cur'[p].unit = Len(units')
                  /\ console' = console]_vars

\* A Warn call has returned with its line on the console, and its unit has
\* shipped a document with level WARN.
C14_Witness ==
    \E i \in DOMAIN units :
        /\ units[i].level = "WARN"
        /\ units[i].shipped # <<>>
        /\ units[i].shipped[1].level = "WARN"
        /\ \E k \in DOMAIN console : console[k].call = i /\ console[k].level = "WARN"

\* The calls goroutine p has made and returned from, by their console lines.
ReturnedCallsOf(p) == {console[k].call : k \in LinesOf(p)}

\* C15: the arrival of documents at the sink is tied to nothing but the
\* dispatches themselves.  Only a document that was POSTed arrives; a
\* dispatch arrives exactly when the sink answers its POST and never when
\* the transport fails; and a unit whose POST is on the wire may resolve
\* next whatever the units of earlier or later calls are doing, so neither
\* the order of the calls nor their completion constrains the order of
\* arrival.
C15_NoArrivalOrder ==
    /\ [](/\ \A i \in remote :
               /\ i \in DOMAIN units
               /\ units[i].pc = "done"
               /\ units[i].posts = 1
          /\ \A i \in DOMAIN units :
               units[i].pc = "inflight" => ENABLED UnitResolve(i))
    /\ [][\A i \in DOMAIN units :
            /\ (units[i].pc = "inflight" /\ units'[i].pc = "done")
                  => (i \in remote' <=> sink # 0)
            /\ (units[i].pc # "inflight" \/ units'[i].pc # "done")
                  => (i \in remote' <=> i \in remote)]_vars

\* One goroutine made two calls one after the other; the document of the
\* second has reached the sink while that of the first has not, and the
\* first then failed for good: it never arrives.
C15_Witness ==
    \E p \in Procs : \E i, j \in ReturnedCallsOf(p) :
        /\ i < j
        /\ j \in remote
        /\ i \notin remote
        /\ units[i].pc = "done"
        /\ units[i].posts = 1

\* C16: under fair scheduling every shipping unit that was started returns
\* (through one of the exits of sendLogAsync), whatever the sink does, and
\* every caller that is inside Log gets back to its own code: waiting for
\* the network is done by the units alone.
C16_UnitsTerminate ==
    /\ \A i \in 1..MaxCalls :
         (i \in DOMAIN units) ~> (i \in DOMAIN units /\ units[i].pc = "done")
    /\ \A p \in Procs : (pc[p] = "log_console") ~> (pc[p] = "idle")

\* A unit has returned on a transport error (the sink never answered) after
\* its caller had long returned.
C16_Witness ==
    \E i \in DOMAIN units :
        /\ units[i].pc = "done"
        /\ units[i].posts = 1
        /\ i \notin remote
        /\ \A p \in Procs : pc[p] = "idle"

\* C17: main's return waits for no shipping unit: whenever main is back in
\* its own code after a log call it can return, whatever state the units are
\* in; and once the process has exited nothing completes any more: the
\* units stay where they were and no further document reaches the sink.
C17_ShutdownDoesNotDrain ==
    /\ [](\A p \in Procs :
            (~exited /\ IsMain(p) /\ pc[p] = "idle") => ENABLED MainReturns(p))
    /\ [][exited => UNCHANGED <<units, remote, console, stderr>>]_vars

\* The process has exited while main's last call, made with nil fields, has
\* its POST still on the wire: that document never arrives.
C17_Witness ==
    /\ exited
    /\ \E p \in Procs : \E i \in ReturnedCallsOf(p) :
         /\ IsMain(p)
         /\ units[i].message = UserMessage
         /\ IsNil(units[i].fields)
         /\ units[i].pc = "inflight"
         /\ i \notin remote

\* C18: whatever GetLogger would return at any moment is nil (the call
\* aborts) or an instance whose environment is final, and no entry is ever
\* built from an instance with an empty environment.
C18_NoPartialInstance ==
    /\ ~IsNil(loggerInstance) =>
         /\ heap[loggerInstance].environment # ""
         /\ heap[loggerInstance].environment = ResolvedEnvironment
    /\ \A i \in DOMAIN units :
         units[i].entry # <<>> => units[i].entry[1].environment # ""

\* Goroutine p is about to iterate over a caller-supplied map in logToConsole
\* while the shipping unit of the same call is about to store into that map
\* in createLogEntry: nothing orders the two accesses.
MapRace(p) ==
    /\ pc[p] = "log_console"
    /\ ~IsNil(cur[p].fields)
    /\ units[cur[p].unit].pc = "start"
    /\ units[cur[p].unit].fields = cur[p].fields
    /\ RuntimeCaller(GoroutineStack(goWrap), CallerSkip).ok

====
